---------------------------- MODULE Spec2Model ----------------------------
(***************************************************************************)
(* Model of the background-removal service (zhuping/remove_bg).            *)
(*                                                                         *)
(* Server mode: remove_background stages an upload and registers a         *)
(* TaskStatus in tasks_status; process_image_async drives the task through *)
(* its states; get_task_status and get_result read the registry; the       *)
(* adapter ImageProcessor.process_image runs on a worker thread of the     *)
(* event loop's default executor; clean_temp_files sweeps the temp         *)
(* directory.                                                              *)
(*                                                                         *)
(* Granularity.  The three HTTP handlers and process_image_async are       *)
(* coroutines of one asyncio event loop, so the code between two awaits    *)
(* runs without interleaving with any other coroutine.  One action is one  *)
(* such uninterrupted run.  process_image_async has a single await         *)
(* (routes.py:30) and is therefore two actions, one up to the await and    *)
(* one from its resumption.  Worker threads run concurrently with the loop *)
(* but only touch files, never a TaskStatus.                               *)
(***************************************************************************)
EXTENDS Integers, Sequences, FiniteSets, TLC

(* ------------------------------ bounds -------------------------------- *)

\* number of job identifiers uuid4 can hand out in a run
MaxJobs == 2
\* last value of the clock (hours)
MaxTime == 1
\* threads of the event loop's default executor
PoolSize == 1
\* largest --workers value of a CLI run
MaxWorkers == 2
\* entries of a directory that is swept step by step
MaxEntries == 2
\* how far beyond a ceiling the longer side of a decoded image goes
MaxOver == 250

(* ----------------------------- constants ------------------------------ *)

MAX_FILE_SIZE == 10 * 1024 * 1024

\* config.py:13, the ceiling of staging
MAX_IMAGE_SIZE == 1920

\* image_processor.py:16, the MAX_IMAGE_SIZE of the adapter's module
ADAPTER_MAX_IMAGE_SIZE == 4000

SUPPORTED_FORMATS ==
    { <<".", "p", "n", "g">>, <<".", "j", "p", "g">>,
      <<".", "j", "p", "e", "g">>, <<".", "w", "e", "b", "p">> }

\* Optional[str]: None is the empty sequence, a value v is <<v>>
None == << >>

Some(v) == << v >>

(* ------------------------- str / pathlib.Path ------------------------- *)

UpperChars == << "A", "B", "C", "D", "E", "F", "G", "H", "I", "J", "K", "L", "M",
                 "N", "O", "P", "Q", "R", "S", "T", "U", "V", "W", "X", "Y", "Z" >>

LowerChars == << "a", "b", "c", "d", "e", "f", "g", "h", "i", "j", "k", "l", "m",
                 "n", "o", "p", "q", "r", "s", "t", "u", "v", "w", "x", "y", "z" >>

\* str.lower() on one character
LowerChar(c) ==
    IF \E i \in 1..Len(UpperChars) : UpperChars[i] = c
    THEN LowerChars[CHOOSE i \in 1..Len(UpperChars) : UpperChars[i] = c]
    ELSE c

\* str.lower()
lower(s) == [i \in 1..Len(s) |-> LowerChar(s[i])]

\* str.rfind("."), 1-based, 0 when there is no dot
rfind_dot(s) ==
    IF \E i \in 1..Len(s) : s[i] = "."
    THEN CHOOSE i \in 1..Len(s) : s[i] = "." /\ \A j \in (i+1)..Len(s) : s[j] # "."
    ELSE 0

\* PurePath.suffix: the text from the last dot, unless the dot is the first
\* or the last character of the name
suffix(name) ==
    LET i == rfind_dot(name)
    IN  IF 1 < i /\ i < Len(name) THEN SubSeq(name, i, Len(name)) ELSE << >>

(* ------------------------------- inputs ------------------------------- *)

\* declared file names of uploads
Filenames ==
    { <<"a", ".", "p", "n", "g">>,
      <<"b", ".", "J", "P", "G">>,
      <<"c", ".", "g", "i", "f">>,
      <<"d">>,
      <<".", "p", "n", "g">> }

\* payload lengths around the limit
Sizes == { MAX_FILE_SIZE, MAX_FILE_SIZE + 1 }

\* which step of staging raises, if any:
\*   open      Image.open cannot identify the payload
\*   compress  compress_image raises while resizing (truncated data)
\*   mkdir     setup_directories raises OSError
\*   save      image.save raises (mode not writable as PNG, truncated data,
\*             disk full)
StageFaults == { "none", "open", "compress", "mkdir", "save" }

\* str(e) of the exception each staging fault raises
StageFaultDetail(fault) ==
    CASE fault = "open"     -> "cannot identify image file"
      [] fault = "compress" -> "image file is truncated"
      [] fault = "mkdir"    -> "Failed to create directory temp"
      [] fault = "save"     -> "cannot write mode CMYK as PNG"

\* str(e) of the RuntimeError loop.run_in_executor raises when the default
\* executor no longer accepts work
SchedulingFaults ==
    { "Executor shutdown has been called",
      "cannot schedule new futures after shutdown" }

\* max_age_hours arguments of a sweep
MaxAges == 0..MaxTime

\* names of the image files of a CLI run's input directory, each with an
\* extension get_supported_image_files lets through
InputNames ==
    { <<"a", ".", "j", "p", "g">>,
      <<"a", ".", "p", "n", "g">>,
      <<"b", ".", "J", "P", "E", "G">>,
      <<"c", ".", "d", ".", "j", "p", "g">>,
      <<"e", ".", "w", "e", "b", "p">> }

\* the lists get_supported_image_files can return: the files of one
\* directory, in the order iterdir yields them
InputLists ==
    { input_paths \in UNION { [1..n -> InputNames] : n \in 0..MaxJobs } :
         \A i, j \in DOMAIN input_paths : i # j => input_paths[i] # input_paths[j] }

(* -------------------------------- state ------------------------------- *)

VARIABLES
    tasks,          \* tasks_status: task id -> TaskStatus fields
    pc,             \* task id -> position of its process_image_async:
                    \* none (never added to the background tasks), queued,
                    \* awaiting, done (returned), raised (left by a fault)
    work,           \* task id -> state of its work item in the executor
    files,          \* files of TEMP_DIR: path -> last-modified time
    tempDirExists,  \* TEMP_DIR exists
    now,            \* datetime.now(), in hours
    resp,           \* the response of the HTTP handler that ran in the last
                    \* step, NoResponse once it is sent
    batch,          \* the CLI run's process_images_parallel call, NoBatch
                    \* in the API server
    sweeps,         \* the calls of clean_temp_files that are followed step
                    \* by step: call -> its position and local variables
    image           \* the image whose dimensions are followed through
                    \* staging and the adapter, NoImage otherwise

vars == << tasks, pc, work, files, tempDirExists, now, resp, batch, sweeps, image >>

\* the values uuid4 can return
Ids == 1..MaxJobs

\* a process that is not a CLI run
NoBatch ==
    [ pc |-> "off", input_paths |-> << >>, max_workers |-> 0, futures |-> << >>,
      collected |-> 0, successful |-> 0, failed |-> 0 ]

\* main.py:12-17: the process is the API server, or one CLI run
Serving == batch.pc = "off"

\* the input_path argument of work item id: the staged upload of job id
\* (routes.py:82), or the id-th file of the batch (commands.py:46)
input_path(id) ==
    IF Serving THEN << "input", id >> ELSE << "input_dir", batch.input_paths[id] >>

\* the output_path argument of work item id (routes.py:83, commands.py:47)
output_path(id) ==
    IF Serving THEN << "output", id >> ELSE << "output_dir", batch.futures[id] >>

Terminal == { "completed", "failed" }

\* the shape of a response; fields a response does not carry are left at
\* these values
NoResponse ==
    [ op |-> "none", code |-> 0, detail |-> "", task_id |-> 0,
      status |-> "", progress |-> 0, error |-> None, file |-> None ]

(* ------------------------------ TaskStatus ---------------------------- *)

\* TaskStatus.__init__ without id and created_at
TaskStatus ==
    [ status |-> "pending", progress |-> 0, result_path |-> None, error |-> None ]

\* variant: the identifier does not depend on the earlier ones
uuid4_fixed == { 1 }

\* uuid.uuid4(): an identifier no job of the registry has
uuid4 == Ids \ DOMAIN tasks

(* -------------------------- process_image_async ----------------------- *)

\* variant: the status assignment of routes.py:26 is missing
OnStart_no_status(task) == [task EXCEPT !.progress = 10]

\* routes.py:26-27
OnStart(task) == [task EXCEPT !.status = "processing", !.progress = 10]

\* variant: progress written as a fraction instead of a percentage
OnSuccess_fraction(task, path) ==
    [task EXCEPT !.status = "completed", !.progress = 1, !.result_path = Some(path)]

\* variant: the result_path assignment of routes.py:41 is missing
OnSuccess_no_path(task, path) ==
    [task EXCEPT !.status = "completed", !.progress = 100]

\* routes.py:39-41
OnSuccess(task, path) ==
    [task EXCEPT !.status = "completed", !.progress = 100, !.result_path = Some(path)]

\* routes.py:43-44
OnFalse(task) ==
    [task EXCEPT !.status = "failed", !.error = Some("Failed to process image")]

\* routes.py:46-49
OnException(task, e) ==
    [task EXCEPT !.status = "failed", !.error = Some(e), !.progress = 0]

\* variant: the clause is `except ValueError`
except_ValueError(e) == FALSE

\* routes.py:46: `except Exception` catches the fault; every fault of the
\* scheduling call is a RuntimeError
except_Exception(e) == e \in SchedulingFaults

\* routes.py:25-36: from the start of the coroutine to its await.  fault is
\* None when run_in_executor hands the call to the executor, or the
\* description of the exception it raises; in that case the except clause
\* runs before the coroutine ever yields.
process_image_async_start(id, fault) ==
    /\ id \in DOMAIN tasks
    /\ pc[id] = "queued"
    /\ IF fault = None
       THEN /\ tasks' = [tasks EXCEPT ![id] = OnStart(@)]
            /\ work' = [work EXCEPT ![id] = "queued"]
            /\ pc' = [pc EXCEPT ![id] = "awaiting"]
       ELSE IF except_Exception(fault[1])
       THEN /\ tasks' = [tasks EXCEPT ![id] = OnException(OnStart(@), fault[1])]
            /\ pc' = [pc EXCEPT ![id] = "done"]
            /\ UNCHANGED work
       ELSE \* the fault leaves the coroutine
            /\ tasks' = [tasks EXCEPT ![id] = OnStart(@)]
            /\ pc' = [pc EXCEPT ![id] = "raised"]
            /\ UNCHANGED work
    /\ resp' = NoResponse
    /\ UNCHANGED << files, tempDirExists, now >>

\* str(e) of an exception that process_image lets through to the await
ProcessImageError == "process_image raised"

\* routes.py:30,38-49: the await returns the adapter's boolean, or raises
\* what the adapter raised, which the except clause then records
process_image_async_resume(id) ==
    /\ id \in DOMAIN tasks
    /\ pc[id] = "awaiting"
    /\ work[id] \in { "true", "false", "raised" }
    /\ tasks' = [tasks EXCEPT ![id] =
                    CASE work[id] = "true"   -> OnSuccess(@, output_path(id))
                      [] work[id] = "false"  -> OnFalse(@)
                      [] work[id] = "raised" -> OnException(@, ProcessImageError)]
    /\ pc' = [pc EXCEPT ![id] = "done"]
    /\ resp' = NoResponse
    /\ UNCHANGED << work, files, tempDirExists, now >>

(* --------------------- executor and ImageProcessor -------------------- *)

\* the step of process_image that raises:
\*   open    Image.open (FileNotFoundError, UnidentifiedImageError)
\*   remove  rembg's remove
\*   save    save_image, which raises its fault again as a ValueError
\*           (image_processor.py:97-99)
AdapterFaults == { "open", "remove", "save" }

\* variant: the clause is `except ValueError`
process_image_except_ValueError(fault) == fault = "save"

\* image_processor.py:156: `except Exception` catches the fault of any step
process_image_except_Exception(fault) == fault \in AdapterFaults

\* image_processor.py:156-158: how a call ends in which a step raised
process_image_failed(fault) ==
    IF process_image_except_Exception(fault) THEN "false" ELSE "raised"

\* variant: the executor starts a thread for every call
Capacity_unbounded == MaxJobs

\* the threads of the executor the calls run on: the event loop's default
\* executor (routes.py:31) or ThreadPoolExecutor(max_workers)
\* (commands.py:35)
Capacity == IF Serving THEN PoolSize ELSE batch.max_workers

\* variant: the runner's wait for the outcome occupies a thread of the pool
Running_with_waiting ==
    { id \in DOMAIN work :
         work[id] = "opened" \/ (id \in DOMAIN pc /\ pc[id] = "awaiting") }

\* the work items a thread of the executor is running
Running == { id \in DOMAIN work : work[id] = "opened" }

\* variant: the call goes on although its input file is gone
process_image_open_without_input(id) ==
    /\ id \in DOMAIN work
    /\ work[id] = "queued"
    /\ Cardinality(Running) < Capacity
    /\ work' = [work EXCEPT ![id] = "opened"]
    /\ resp' = NoResponse
    /\ UNCHANGED << tasks, pc, files, tempDirExists, now >>

\* a free worker thread of the executor takes the work item and runs
\* process_image up to Image.open (image_processor.py:124-137): Image.open
\* raises when the staged input is gone, and the call ends there
process_image_open(id) ==
    /\ id \in DOMAIN work
    /\ work[id] = "queued"
    /\ Cardinality(Running) < Capacity
    /\ work' = [work EXCEPT ![id] =
                   IF input_path(id) \in DOMAIN files
                   THEN "opened" ELSE process_image_failed("open")]
    /\ resp' = NoResponse
    /\ UNCHANGED << tasks, pc, files, tempDirExists, now >>

\* variant: save_image logs its exception without raising it again, so the
\* adapter returns True although no file was written
process_image_save_swallow(id, removeOk, saveOk) ==
    /\ id \in DOMAIN work
    /\ work[id] = "opened"
    /\ IF removeOk /\ saveOk
       THEN /\ files' = [p \in DOMAIN files \cup { output_path(id) } |->
                            IF p = output_path(id) THEN now ELSE files[p]]
            /\ tempDirExists' = TRUE
            /\ work' = [work EXCEPT ![id] = "true"]
       ELSE /\ work' = [work EXCEPT ![id] = IF removeOk THEN "true" ELSE "false"]
            /\ UNCHANGED << files, tempDirExists >>
    /\ resp' = NoResponse
    /\ UNCHANGED << tasks, pc, now >>

\* image_processor.py:139-158: remove() and then save_image run; when both
\* succeed the output file is written and the call returns True; when
\* remove() raises, save_image is not reached; when either raises, no file
\* is written and the call ends in the except clause
process_image_save(id, removeOk, saveOk) ==
    /\ id \in DOMAIN work
    /\ work[id] = "opened"
    /\ IF removeOk /\ saveOk
       THEN /\ files' = [p \in DOMAIN files \cup { output_path(id) } |->
                            IF p = output_path(id) THEN now ELSE files[p]]
            /\ tempDirExists' = TRUE
            /\ work' = [work EXCEPT ![id] = "true"]
       ELSE /\ work' = [work EXCEPT ![id] =
                           process_image_failed(IF removeOk THEN "save" ELSE "remove")]
            /\ UNCHANGED << files, tempDirExists >>
    /\ resp' = NoResponse
    /\ UNCHANGED << tasks, pc, now >>

(* --------------------------- remove_background ------------------------ *)

\* routes.py:58: Path(file.filename).suffix.lower() of each upload name
Extension == [filename \in Filenames |-> lower(suffix(filename))]

\* routes.py:58
Unsupported(filename) == Extension[filename] \notin SUPPORTED_FORMATS

\* variant: the limit is off by one
TooLarge_off_by_one(size) == size > MAX_FILE_SIZE + 1

\* routes.py:63
TooLarge(size) == size > MAX_FILE_SIZE

\* an upload: the declared file name, the payload length, and the staging
\* step that raises on this payload; a payload that is turned away before
\* it is decoded reaches no staging step
Uploads ==
    { u \in [filename : Filenames, size : Sizes, fault : StageFaults] :
         (Unsupported(u.filename) \/ TooLarge(u.size)) => u.fault = "none" }

HTTPException(op, code, detail) ==
    [NoResponse EXCEPT !.op = op, !.code = code, !.detail = detail]

\* routes.py:52-104
remove_background(file) ==
    IF Unsupported(file.filename)
    THEN /\ resp' = HTTPException("remove_background", 400, "Unsupported file format")
         /\ UNCHANGED << tasks, pc, work, files, tempDirExists, now >>
    ELSE IF TooLarge(file.size)
    THEN /\ resp' = HTTPException("remove_background", 400, "File too large")
         /\ UNCHANGED << tasks, pc, work, files, tempDirExists, now >>
    ELSE IF file.fault \in { "open", "compress" }
    THEN \* routes.py:68-70 raise before the task is created
         /\ resp' = HTTPException("remove_background", 400, StageFaultDetail(file.fault))
         /\ UNCHANGED << tasks, pc, work, files, tempDirExists, now >>
    ELSE \E id \in uuid4 :
            \* routes.py:75-76
            /\ tasks' = (id :> TaskStatus) @@ tasks
            /\ work' = (id :> "none") @@ work
            /\ IF file.fault = "mkdir"
               THEN \* routes.py:79 raises: no background task is added
                    /\ resp' = HTTPException("remove_background", 400, StageFaultDetail(file.fault))
                    /\ pc' = (id :> "none") @@ pc
                    /\ UNCHANGED << files, tempDirExists >>
               ELSE IF file.fault = "save"
               THEN \* routes.py:85 raises: no background task is added
                    /\ resp' = HTTPException("remove_background", 400, StageFaultDetail(file.fault))
                    /\ pc' = (id :> "none") @@ pc
                    /\ tempDirExists' = TRUE
                    /\ UNCHANGED files
               ELSE \* routes.py:85-99
                    /\ resp' = [NoResponse EXCEPT !.op = "remove_background",
                                                  !.code = 200, !.task_id = id]
                    /\ pc' = (id :> "queued") @@ pc
                    /\ tempDirExists' = TRUE
                    /\ files' = [p \in DOMAIN files \cup { input_path(id) } |->
                                    IF p = input_path(id) THEN now ELSE files[p]]
            /\ UNCHANGED now

(* ------------------------ get_task_status, get_result ----------------- *)

\* variant: a job that has failed is reported like an unknown task
get_task_status_response_forgets_failed(task_id) ==
    IF task_id \notin DOMAIN tasks \/ tasks[task_id].status = "failed"
    THEN [HTTPException("get_task_status", 404, "Task not found") EXCEPT !.task_id = task_id]
    ELSE [NoResponse EXCEPT !.op = "get_task_status", !.code = 200, !.task_id = task_id,
                            !.status = tasks[task_id].status,
                            !.progress = tasks[task_id].progress,
                            !.error = tasks[task_id].error]

\* routes.py:107-117
get_task_status_response(task_id) ==
    IF task_id \notin DOMAIN tasks
    THEN [HTTPException("get_task_status", 404, "Task not found") EXCEPT !.task_id = task_id]
    ELSE [NoResponse EXCEPT !.op = "get_task_status", !.code = 200, !.task_id = task_id,
                            !.status = tasks[task_id].status,
                            !.progress = tasks[task_id].progress,
                            !.error = tasks[task_id].error]

get_task_status(task_id) ==
    /\ resp' = get_task_status_response(task_id)
    /\ UNCHANGED << tasks, pc, work, files, tempDirExists, now >>

\* variant: a missing result file is reported like an unknown task
get_result_response_plain_404(task_id) ==
    IF task_id \notin DOMAIN tasks
    THEN [HTTPException("get_result", 404, "Task not found") EXCEPT !.task_id = task_id]
    ELSE IF tasks[task_id].status # "completed"
    THEN [HTTPException("get_result", 400, "Task not completed") EXCEPT
             !.task_id = task_id,
             !.status = tasks[task_id].status,
             !.progress = tasks[task_id].progress]
    ELSE IF tasks[task_id].result_path = None
            \/ tasks[task_id].result_path[1] \notin DOMAIN files
    THEN [HTTPException("get_result", 404, "Task not found") EXCEPT !.task_id = task_id]
    ELSE [NoResponse EXCEPT !.op = "get_result", !.code = 200, !.task_id = task_id,
                            !.file = tasks[task_id].result_path]

\* routes.py:120-156
get_result_response(task_id) ==
    IF task_id \notin DOMAIN tasks
    THEN [HTTPException("get_result", 404, "Task not found") EXCEPT !.task_id = task_id]
    ELSE IF tasks[task_id].status # "completed"
    THEN [HTTPException("get_result", 400, "Task not completed") EXCEPT
             !.task_id = task_id,
             !.status = tasks[task_id].status,
             !.progress = tasks[task_id].progress]
    ELSE IF tasks[task_id].result_path = None
            \/ tasks[task_id].result_path[1] \notin DOMAIN files
    THEN [HTTPException("get_result", 404, "Result file not found") EXCEPT !.task_id = task_id]
    ELSE [NoResponse EXCEPT !.op = "get_result", !.code = 200, !.task_id = task_id,
                            !.file = tasks[task_id].result_path]

\* variant: a fetch that finds the result file missing marks the job Failed
get_result_marks_failed(task_id) ==
    /\ resp' = get_result_response(task_id)
    /\ tasks' = IF resp'.detail = "Result file not found"
                THEN [tasks EXCEPT ![task_id] = OnException(@, resp'.detail)]
                ELSE tasks
    /\ UNCHANGED << pc, work, files, tempDirExists, now >>

get_result(task_id) ==
    /\ resp' = get_result_response(task_id)
    /\ UNCHANGED << tasks, pc, work, files, tempDirExists, now >>

(* ----------------------------- clean_temp_files ----------------------- *)

\* Path.is_file(): true of a regular file and of a symbolic link to one.
\* The first component of a path tells what the entry is; the staged files
\* of the server are regular files.
is_file(p) == p[1] # "dir"

\* helpers.py:68-75: the files the loop tries to unlink
OldFiles(max_age_hours) ==
    LET cutoff_time == now - max_age_hours
    IN  { p \in DOMAIN files : is_file(p) /\ files[p] < cutoff_time }

\* helpers.py:55-82, one whole call.  locked are the old files the call
\* leaves behind: those whose unlink raises (the inner except clause logs
\* the failure and the loop goes on) and those the loop does not reach.
clean_temp_files(max_age_hours, locked) ==
    /\ locked \subseteq OldFiles(max_age_hours)
    /\ IF ~ tempDirExists
       THEN UNCHANGED files
       ELSE files' = [p \in DOMAIN files \ (OldFiles(max_age_hours) \ locked) |-> files[p]]
    /\ resp' = NoResponse
    /\ UNCHANGED << tasks, pc, work, tempDirExists, now >>

(* ------------------- clean_temp_files, step by step ------------------- *)

\* The calls of clean_temp_files that run side by side or one after the
\* other on one directory.  Each file system call of the loop is one step,
\* so that another call can delete an entry between two of them.
Calls == { 1, 2 }

\* a call that has not begun.  listing, deleted, failed and after record
\* what the call met: the directory as iterdir listed it, the entries it
\* unlinked, the entries on which stat or unlink raised, and the calls that
\* had ended when it began.
NoCall ==
    [ pc |-> "idle", max_age_hours |-> 0, cutoff_time |-> 0, listing |-> << >>,
      todo |-> {}, file_path |-> None, deleted |-> {}, failed |-> {}, after |-> {} ]

\* the call has ended: it returned from line 65 or from the end of the loop,
\* or the outer except clause logged an error
Ended(call) == call.pc \in { "returned", "logged" }

\* the loop goes to the next entry of the listing, or ends
Continue(call) ==
    [call EXCEPT !.file_path = None,
                 !.pc = IF call.todo = {} THEN "returned" ELSE "is_file"]

\* helpers.py:63-69: the exists check, the cutoff and the listing
clean_temp_files_begin(c, max_age_hours) ==
    /\ sweeps[c].pc = "idle"
    /\ LET call == [sweeps[c] EXCEPT
                       !.max_age_hours = max_age_hours,
                       !.after = { d \in Calls : Ended(sweeps[d]) }]
       IN  sweeps' = [sweeps EXCEPT ![c] =
                         IF ~ tempDirExists
                         THEN [call EXCEPT !.pc = "returned"]
                         ELSE Continue([call EXCEPT
                                          !.cutoff_time = now - max_age_hours,
                                          !.listing = files,
                                          !.todo = DOMAIN files])]
    /\ UNCHANGED << tasks, pc, work, files, tempDirExists, now, resp, batch, image >>

\* helpers.py:69-71: the loop takes the next entry, in whatever order the
\* listing has, and skips what is_file() refuses: a directory, or an entry
\* that is gone
clean_temp_files_is_file(c, file_path) ==
    /\ sweeps[c].pc = "is_file"
    /\ file_path \in sweeps[c].todo
    /\ LET call == [sweeps[c] EXCEPT !.todo = @ \ { file_path }]
       IN  sweeps' = [sweeps EXCEPT ![c] =
                         IF file_path \in DOMAIN files /\ is_file(file_path)
                         THEN [call EXCEPT !.pc = "stat", !.file_path = Some(file_path)]
                         ELSE Continue(call)]
    /\ UNCHANGED << tasks, pc, work, files, tempDirExists, now, resp, batch, image >>

\* variant: a file as old as the cutoff is unlinked too
clean_temp_files_stat_or_equal(c) ==
    /\ sweeps[c].pc = "stat"
    /\ LET call == sweeps[c]
           file_path == call.file_path[1]
       IN  sweeps' = [sweeps EXCEPT ![c] =
                         IF file_path \notin DOMAIN files
                         THEN [call EXCEPT !.pc = "logged", !.failed = @ \cup { file_path }]
                         ELSE IF files[file_path] <= call.cutoff_time
                         THEN [call EXCEPT !.pc = "unlink"]
                         ELSE Continue(call)]
    /\ UNCHANGED << tasks, pc, work, files, tempDirExists, now, resp, batch, image >>

\* helpers.py:73-74: stat() of an entry that is gone raises
\* FileNotFoundError outside the inner try, so the outer except clause
\* (helpers.py:81-82) logs it and the call ends; otherwise the entry's time
\* is compared with the cutoff
clean_temp_files_stat(c) ==
    /\ sweeps[c].pc = "stat"
    /\ LET call == sweeps[c]
           file_path == call.file_path[1]
       IN  sweeps' = [sweeps EXCEPT ![c] =
                         IF file_path \notin DOMAIN files
                         THEN [call EXCEPT !.pc = "logged", !.failed = @ \cup { file_path }]
                         ELSE IF files[file_path] < call.cutoff_time
                         THEN [call EXCEPT !.pc = "unlink"]
                         ELSE Continue(call)]
    /\ UNCHANGED << tasks, pc, work, files, tempDirExists, now, resp, batch, image >>

\* variant: after a successful unlink the loop skips the entry that follows
clean_temp_files_unlink_skips(c, unlinkOk) ==
    /\ sweeps[c].pc = "unlink"
    /\ LET call == sweeps[c]
           file_path == call.file_path[1]
       IN  IF file_path \in DOMAIN files /\ unlinkOk
           THEN /\ files' = [p \in DOMAIN files \ { file_path } |-> files[p]]
                /\ sweeps' = [sweeps EXCEPT ![c] =
                                 Continue([call EXCEPT
                                     !.deleted = @ \cup { file_path },
                                     !.todo = IF @ = {} THEN {} ELSE @ \ { CHOOSE p \in @ : TRUE }])]
           ELSE /\ sweeps' = [sweeps EXCEPT ![c] =
                                 Continue([call EXCEPT !.failed = @ \cup { file_path }])]
                /\ UNCHANGED files
    /\ UNCHANGED << tasks, pc, work, tempDirExists, now, resp, batch, image >>

\* helpers.py:75-79: unlink() removes the entry; when it raises (the entry
\* is gone, or cannot be removed) the inner except clause logs a warning and
\* the loop goes on
clean_temp_files_unlink(c, unlinkOk) ==
    /\ sweeps[c].pc = "unlink"
    /\ LET call == sweeps[c]
           file_path == call.file_path[1]
       IN  IF file_path \in DOMAIN files /\ unlinkOk
           THEN /\ files' = [p \in DOMAIN files \ { file_path } |-> files[p]]
                /\ sweeps' = [sweeps EXCEPT ![c] =
                                 Continue([call EXCEPT !.deleted = @ \cup { file_path }])]
           ELSE /\ sweeps' = [sweeps EXCEPT ![c] =
                                 Continue([call EXCEPT !.failed = @ \cup { file_path }])]
                /\ UNCHANGED files
    /\ UNCHANGED << tasks, pc, work, tempDirExists, now, resp, batch, image >>

(* ------------------------ process_images_parallel --------------------- *)

\* PurePath.stem: the name without its suffix
stem(name) == SubSeq(name, 1, Len(name) - Len(suffix(name)))

\* variant: the extension is compared as it is written
output_name_case_sensitive(name) ==
    IF suffix(name) \in { <<".", "j", "p", "g">>, <<".", "j", "p", "e", "g">> }
    THEN <<"n", "o", "_", "b", "g", "_">> \o stem(name) \o <<".", "p", "n", "g">>
    ELSE <<"n", "o", "_", "b", "g", "_">> \o name

\* commands.py:39-42: the file name of the output path of an input
output_name(name) ==
    IF lower(suffix(name)) \in { <<".", "j", "p", "g">>, <<".", "j", "p", "e", "g">> }
    THEN <<"n", "o", "_", "b", "g", "_">> \o stem(name) \o <<".", "p", "n", "g">>
    ELSE <<"n", "o", "_", "b", "g", "_">> \o name

\* output_name of each input name
OutputName == [name \in InputNames |-> output_name(name)]

\* commands.py:37-50: one turn of the first loop computes the output path
\* of the next input and submits the call to the executor
process_images_parallel_submit ==
    /\ batch.pc = "submit"
    /\ LET i == Len(batch.futures) + 1
       IN  /\ batch' = [batch EXCEPT
                          !.futures = Append(@, OutputName[batch.input_paths[i]]),
                          !.pc = IF i = Len(batch.input_paths) THEN "result" ELSE "submit"]
           /\ work' = (i :> "queued") @@ work
    /\ UNCHANGED << tasks, pc, files, tempDirExists, now, resp, sweeps, image >>

\* variant: an item that failed ends the loop
process_images_parallel_result_break ==
    /\ batch.pc = "result"
    /\ batch.collected < Len(batch.futures)
    /\ LET i == batch.collected + 1
       IN  /\ work[i] \in { "true", "false", "raised" }
           /\ batch' = [batch EXCEPT
                          !.collected = IF work[i] = "true" THEN i ELSE Len(batch.futures),
                          !.successful = IF work[i] = "true" THEN @ + 1 ELSE @,
                          !.failed = IF work[i] = "true" THEN @ ELSE @ + 1]
    /\ UNCHANGED << tasks, pc, work, files, tempDirExists, now, resp, sweeps, image >>

\* commands.py:53-66: one turn of the second loop waits for the result of
\* the next future, in submission order, and counts it; a result that is an
\* exception is counted as a failure
process_images_parallel_result ==
    /\ batch.pc = "result"
    /\ batch.collected < Len(batch.futures)
    /\ LET i == batch.collected + 1
       IN  /\ work[i] \in { "true", "false", "raised" }
           /\ batch' = [batch EXCEPT
                          !.collected = i,
                          !.successful = IF work[i] = "true" THEN @ + 1 ELSE @,
                          !.failed = IF work[i] = "true" THEN @ ELSE @ + 1]
    /\ UNCHANGED << tasks, pc, work, files, tempDirExists, now, resp, sweeps, image >>

\* commands.py:35,68: the with block ends, which waits for every call of
\* the executor, and the counts are returned
process_images_parallel_return ==
    /\ batch.pc = "result"
    /\ batch.collected = Len(batch.futures)
    /\ \A i \in DOMAIN work : work[i] \in { "true", "false", "raised" }
    /\ batch' = [batch EXCEPT !.pc = "returned"]
    /\ UNCHANGED << tasks, pc, work, files, tempDirExists, now, resp, sweeps, image >>

(* ---------------------------- compress_image ------------------------- *)

\* Python's float is the IEEE 754 double: a significand of 53 bits
MantissaBits == 53

\* A positive double is [mant |-> its significand, the most significant
\* bit first and set, exp |-> e]: the number (mant read in binary) * 2^e.

\* the number a sequence of bits stands for, most significant bit first
RECURSIVE ToInt(_)
ToInt(bits) ==
    IF bits = << >> THEN 0
    ELSE 2 * ToInt(SubSeq(bits, 1, Len(bits) - 1)) + bits[Len(bits)]

\* the bits of bits + 1
RECURSIVE Increment(_)
Increment(bits) ==
    IF bits = << >> THEN << 1 >>
    ELSE IF bits[Len(bits)] = 0
         THEN SubSeq(bits, 1, Len(bits) - 1) \o << 1 >>
         ELSE Increment(SubSeq(bits, 1, Len(bits) - 1)) \o << 0 >>

\* round-half-to-even of an exact result to 53 bits: bits are the leading
\* bits of the result (at least 53), sticky tells that more nonzero bits
\* follow them, and exp is the weight of the last of bits
RoundHalfEven(bits, sticky, exp) ==
    LET keep  == SubSeq(bits, 1, MantissaBits)
        rest  == SubSeq(bits, MantissaBits + 1, Len(bits))
        guard == IF rest = << >> THEN 0 ELSE rest[1]
        more  == sticky \/ \E i \in 2..Len(rest) : rest[i] = 1
        up    == guard = 1 /\ (more \/ keep[MantissaBits] = 1)
        mant  == IF up THEN Increment(keep) ELSE keep
    IN  [ mant |-> SubSeq(mant, 1, MantissaBits),
          exp  |-> exp + Len(rest) + (Len(mant) - MantissaBits) ]

\* the least e with a * 2^e >= b
RECURSIVE Shift(_, _)
Shift(a, b) == IF a >= b THEN 0 ELSE 1 + Shift(2 * a, b)

\* n more bits of a quotient by long division, followed by the remainder
RECURSIVE LongDivision(_, _, _)
LongDivision(rem, b, n) ==
    IF n = 0 THEN << rem >>
    ELSE IF 2 * rem >= b
         THEN << 1 >> \o LongDivision(2 * rem - b, b, n - 1)
         ELSE << 0 >> \o LongDivision(2 * rem, b, n - 1)

RECURSIVE Pow2(_)
Pow2(n) == IF n = 0 THEN 1 ELSE 2 * Pow2(n - 1)

\* a / b of two ints with 0 < a < b: the correctly rounded quotient
truediv(a, b) ==
    LET e    == Shift(a, b)
        q    == LongDivision(a * Pow2(e) - b, b, MantissaBits)
        bits == << 1 >> \o SubSeq(q, 1, MantissaBits)
    IN  RoundHalfEven(bits, q[MantissaBits + 1] # 0, - MantissaBits - e)

\* the bits, least significant first, of bits * d + carry, where bits are
\* given least significant first
RECURSIVE Times(_, _, _)
Times(bits, d, carry) ==
    IF bits = << >>
    THEN IF carry = 0 THEN << >> ELSE << carry % 2 >> \o Times(bits, d, carry \div 2)
    ELSE LET t == d * Head(bits) + carry
         IN  << t % 2 >> \o Times(Tail(bits), d, t \div 2)

Reverse(bits) == [i \in 1..Len(bits) |-> bits[Len(bits) + 1 - i]]

\* dim * x of an int dim >= 1 and a double x: the correctly rounded product
float_mul(dim, x) ==
    RoundHalfEven(Reverse(Times(Reverse(x.mant), dim, 0)), FALSE, x.exp)

\* int(x) of a positive double: the fraction is cut off
int(x) ==
    LET n == MantissaBits + x.exp
    IN  IF x.exp >= 0 THEN ToInt(x.mant) * Pow2(x.exp)
        ELSE IF n <= 0 THEN 0
        ELSE ToInt(SubSeq(x.mant, 1, n))

Max(a, b) == IF a >= b THEN a ELSE b

\* what Image.resize leaves when a side of the new size is below 1:
\* ValueError("height and width must be > 0")
ResizeError == << 0, 0 >>

\* Image.resize: an image of the new size
resize(new_size) ==
    IF new_size[1] < 1 \/ new_size[2] < 1 THEN ResizeError ELSE new_size

\* image_utils.py:10-16 and image_processor.py:25-41: the size of the image
\* compress_image returns for an image of this size, or ResizeError
compress_image(size, max_size) ==
    IF Max(size[1], size[2]) > max_size
    THEN LET ratio    == truediv(max_size, Max(size[1], size[2]))
             new_size == << int(float_mul(size[1], ratio)), int(float_mul(size[2], ratio)) >>
         IN  resize(new_size)
    ELSE size

\* no image is followed
NoImage ==
    [ pc |-> "none", entry |-> "none", decoded |-> << 0, 0 >>, size |-> << 0, 0 >>,
      resized |-> FALSE ]

\* routes.py:68-85: the upload is decoded, compressed to the ceiling of
\* staging and saved as the job's input file; a fault is answered with 400
remove_background_compress ==
    /\ image.pc = "decoded"
    /\ LET staged == compress_image(image.size, MAX_IMAGE_SIZE)
       IN  image' = IF staged = ResizeError
                    THEN [image EXCEPT !.pc = "rejected"]
                    ELSE [image EXCEPT !.pc = "staged", !.size = staged]
    /\ UNCHANGED << tasks, pc, work, files, tempDirExists, now, resp, batch, sweeps >>

\* image_processor.py:129-137: the adapter opens its input, the staged file
\* of a job or an input file of a CLI run, and compresses it when its
\* longer side is above the adapter's ceiling; a fault makes it return False
process_image_compress ==
    /\ image.pc \in { "staged", "input" }
    /\ LET original_size == image.size
       IN  IF Max(original_size[1], original_size[2]) > ADAPTER_MAX_IMAGE_SIZE
           THEN LET input_image == compress_image(original_size, ADAPTER_MAX_IMAGE_SIZE)
                IN  image' = IF input_image = ResizeError
                             THEN [image EXCEPT !.pc = "false"]
                             ELSE [image EXCEPT !.pc = "remove", !.size = input_image,
                                                !.resized = TRUE]
           ELSE image' = [image EXCEPT !.pc = "remove"]
    /\ UNCHANGED << tasks, pc, work, files, tempDirExists, now, resp, batch, sweeps >>

(* -------------------------------- clock ------------------------------- *)

Tick ==
    /\ now < MaxTime
    /\ now' = now + 1
    /\ resp' = NoResponse
    /\ UNCHANGED << tasks, pc, work, files, tempDirExists >>

(* ----------------------------- specification -------------------------- *)

\* the API server before its first request
InitServer ==
    /\ batch = NoBatch
    /\ files = << >>
    /\ tempDirExists = FALSE

\* a CLI run at the call of process_images_parallel (commands.py:154):
\* setup_directories has made the output directory, and the listed inputs
\* are in the input directory, except those removed since they were listed
InitBatch ==
    \E input_paths \in InputLists, max_workers \in 1..MaxWorkers,
       removed \in SUBSET InputNames :
        /\ removed \subseteq { input_paths[i] : i \in DOMAIN input_paths }
        /\ batch = [NoBatch EXCEPT
                       !.pc = IF input_paths = << >> THEN "result" ELSE "submit",
                       !.input_paths = input_paths,
                       !.max_workers = max_workers]
        /\ files = [p \in { << "input_dir", input_paths[i] >> : i \in DOMAIN input_paths }
                          \ { << "input_dir", name >> : name \in removed } |-> 0]
        /\ tempDirExists = TRUE

Init ==
    /\ tasks = << >>
    /\ pc = << >>
    /\ work = << >>
    /\ now = 0
    /\ resp = NoResponse
    /\ sweeps = [c \in Calls |-> NoCall]
    /\ image = NoImage
    /\ (InitServer \/ InitBatch)

\* resp observes one request at a time: the step after a handler is the one
\* that sends its response.  No action reads resp, so the order this fixes
\* removes nothing from what the program does to its state.
response_sent ==
    /\ resp # NoResponse
    /\ resp' = NoResponse
    /\ UNCHANGED << tasks, pc, work, files, tempDirExists, now >>

Next ==
    \/ \E file \in Uploads :
          resp = NoResponse /\ Serving /\ remove_background(file) /\ UNCHANGED << batch, sweeps, image >>
    \/ \E id \in Ids, fault \in { None } \cup { Some(e) : e \in SchedulingFaults } :
          resp = NoResponse /\ process_image_async_start(id, fault) /\ UNCHANGED << batch, sweeps, image >>
    \/ \E id \in Ids :
          resp = NoResponse /\ process_image_async_resume(id) /\ UNCHANGED << batch, sweeps, image >>
    \/ \E id \in Ids :
          resp = NoResponse /\ process_image_open(id) /\ UNCHANGED << batch, sweeps, image >>
    \/ \E id \in Ids, removeOk \in BOOLEAN, saveOk \in BOOLEAN :
          resp = NoResponse /\ process_image_save(id, removeOk, saveOk) /\ UNCHANGED << batch, sweeps, image >>
    \/ \E task_id \in Ids :
          resp = NoResponse /\ Serving /\ get_task_status(task_id) /\ UNCHANGED << batch, sweeps, image >>
    \/ \E task_id \in Ids :
          resp = NoResponse /\ Serving /\ get_result(task_id) /\ UNCHANGED << batch, sweeps, image >>
    \/ \E max_age_hours \in MaxAges : \E locked \in SUBSET OldFiles(max_age_hours) :
          resp = NoResponse /\ Serving /\ clean_temp_files(max_age_hours, locked)
          /\ UNCHANGED << batch, sweeps, image >>
    \/ resp = NoResponse /\ Serving /\ Tick /\ UNCHANGED << batch, sweeps, image >>
    \/ response_sent /\ UNCHANGED << batch, sweeps, image >>
    \/ process_images_parallel_submit
    \/ process_images_parallel_result
    \/ process_images_parallel_return

Spec == Init /\ [][Next]_vars

(* ------------------- specification of the sweeper --------------------- *)

\* names of the entries of the swept directory
EntryNames == 1..MaxEntries

\* the contents a directory can have at time t: each name is absent, or a
\* regular file last modified at some time up to t, or a symbolic link to
\* an old regular file, or a subdirectory
Directories(t) ==
    LET Options == { << "absent", 0 >>, << "link", 0 >>, << "dir", 0 >> }
                       \cup { << "file", m >> : m \in 0..t }
    IN  { [p \in { << f[n][1], n >> : n \in { m \in EntryNames : f[m][1] # "absent" } }
             |-> f[p[2]][2]] : f \in [EntryNames -> Options] }

\* clean_temp_files is called on a directory that does not exist, or on one
\* with some contents.  The clock stands still: a call reads it once, for
\* its cutoff, and the cutoffs of a later time are those of a smaller
\* max_age_hours.
InitSweep ==
    /\ tasks = << >>
    /\ pc = << >>
    /\ work = << >>
    /\ resp = NoResponse
    /\ batch = NoBatch
    /\ sweeps = [c \in Calls |-> NoCall]
    /\ image = NoImage
    /\ now \in 0..MaxTime
    /\ \/ tempDirExists = FALSE /\ files = << >>
       \/ tempDirExists = TRUE /\ files \in Directories(now)

NextSweep ==
    \/ \E c \in Calls, max_age_hours \in MaxAges : clean_temp_files_begin(c, max_age_hours)
    \/ \E c \in Calls, file_path \in DOMAIN files \cup UNION { sweeps[d].todo : d \in Calls } :
          clean_temp_files_is_file(c, file_path)
    \/ \E c \in Calls : clean_temp_files_stat(c)
    \/ \E c \in Calls, unlinkOk \in BOOLEAN : clean_temp_files_unlink(c, unlinkOk)

SweepSpec == InitSweep /\ [][NextSweep]_vars

(* ------------------- specification of the image sizes ---------------- *)

\* the longer sides of the decoded images: around and beyond each ceiling
LongerSides ==
    (MAX_IMAGE_SIZE - 1 .. MAX_IMAGE_SIZE + MaxOver)
        \cup (ADAPTER_MAX_IMAGE_SIZE - 1 .. ADAPTER_MAX_IMAGE_SIZE + MaxOver)

\* their shorter sides
ShorterSides == { 1, 2, 1080, MAX_IMAGE_SIZE - 1 }

\* the sizes (width, height) of the decoded images, landscape and portrait
ImageSizes ==
    UNION { { << l, s >>, << s, l >> } : << l, s >> \in LongerSides \X ShorterSides }

\* an image arrives as an upload that the server has decoded, or as an
\* input file of a CLI run, which goes to the adapter as it is
InitStage ==
    /\ tasks = << >>
    /\ pc = << >>
    /\ work = << >>
    /\ files = << >>
    /\ tempDirExists = FALSE
    /\ now = 0
    /\ resp = NoResponse
    /\ batch = NoBatch
    /\ sweeps = [c \in Calls |-> NoCall]
    /\ \E size \in ImageSizes, entry \in { "server", "cli" } :
          image = [ pc |-> IF entry = "server" THEN "decoded" ELSE "input",
                    entry |-> entry, decoded |-> size, size |-> size, resized |-> FALSE ]

NextStage ==
    \/ remove_background_compress
    \/ process_image_compress

StageSpec == InitStage /\ [][NextStage]_vars

\* The scheduling of the server.  The event loop runs every callback that
\* is ready, in the order it became ready: a response that is due is sent,
\* and a runner that can start or resume does so however many requests
\* arrive.  A free thread of the executor takes a queued call, and a call
\* that has opened its input returns (remove() and save_image end).
Fairness ==
    /\ WF_vars(response_sent /\ UNCHANGED << batch, sweeps, image >>)
    /\ \A id \in Ids :
          /\ WF_vars(/\ \E fault \in { None } \cup { Some(e) : e \in SchedulingFaults } :
                          process_image_async_start(id, fault)
                     /\ UNCHANGED << batch, sweeps, image >>)
          /\ WF_vars(process_image_async_resume(id) /\ UNCHANGED << batch, sweeps, image >>)
          /\ WF_vars(process_image_open(id) /\ UNCHANGED << batch, sweeps, image >>)
          /\ WF_vars(/\ \E removeOk \in BOOLEAN, saveOk \in BOOLEAN :
                          process_image_save(id, removeOk, saveOk)
                     /\ UNCHANGED << batch, sweeps, image >>)

LiveSpec == Init /\ [][Next]_vars /\ Fairness

(* ------------------------------ properties ---------------------------- *)

\* the jobs present before and after a step
Jobs2 == DOMAIN tasks \cap DOMAIN tasks'

\* the error values a caught scheduling fault leaves
SchedulingErrors == { Some(e) : e \in SchedulingFaults }

\* one move along Pending -> Processing -> {Completed, Failed}, or none
LegalStep(s, t) ==
    \/ t = s
    \/ s = "pending" /\ t = "processing"
    \/ s = "processing" /\ t \in Terminal

\* C1 as stated: in every step every job's state stays or makes one move
\* along Pending -> Processing -> (Completed or Failed); it never moves
\* backwards, never goes from Pending straight to a terminal state, and
\* never leaves a terminal state.
C1_StateSequenceAsStated ==
    [][\A id \in Jobs2 : LegalStep(tasks[id].status, tasks'[id].status)]_vars

\* C1 amended: the state never moves backwards and never leaves Completed
\* or Failed, and it passes through Processing whenever the pooled call was
\* scheduled; the one step from Pending straight to a terminal state is the
\* start of the runner whose scheduling call raised, which ends in Failed
\* with the fault's description (Processing is written and overwritten
\* before the coroutine yields).
C1_StateSequence ==
    [][tasks' # tasks =>
          \A id \in Jobs2 :
              \/ LegalStep(tasks[id].status, tasks'[id].status)
              \/ /\ tasks[id].status = "pending"
                 /\ tasks'[id].status = "failed"
                 /\ tasks'[id].error \in SchedulingErrors
                 /\ pc[id] = "queued" /\ pc'[id] = "done"]_vars

C1_Witness ==
    \E a, b \in DOMAIN tasks :
        /\ tasks[a].status = "completed" /\ pc[a] = "done"
        /\ tasks[b].status = "failed" /\ tasks[b].error \in SchedulingErrors

\* C2: every job in Failed has a non-empty error and progress 0.
C2_FailedHasErrorAndZeroProgress ==
    \A id \in DOMAIN tasks :
        tasks[id].status = "failed" =>
            /\ tasks[id].error # None
            /\ tasks[id].error # Some("")
            /\ tasks[id].progress = 0

\* the progress a status query for a known job reports
polled_progress(id) == get_task_status_response(id).progress

\* C3: the progress a status query reports is 0, 10 or 100; it does not
\* decrease in a step that leaves the job in Pending, Processing or
\* Completed, and it does not change once the job is Completed or Failed.
C3_ProgressMonotonic ==
    [][tasks' # tasks =>
          \A id \in Jobs2 :
              /\ polled_progress(id)' \in { 0, 10, 100 }
              /\ tasks'[id].status # "failed" => polled_progress(id)' >= polled_progress(id)
              /\ tasks[id].status \in Terminal => polled_progress(id)' = polled_progress(id)]_vars

C3_Witness ==
    /\ resp.op = "get_task_status" /\ resp.code = 200
    /\ resp.status = "completed" /\ resp.progress = 100

\* C4: in every state result_path is set exactly when the job is Completed,
\* and then progress is 100; error is set exactly when the job is Failed;
\* a status response carries an error exactly when it reports Failed.
C4_FieldsConsistent ==
    /\ \A id \in DOMAIN tasks :
          /\ (tasks[id].result_path # None) <=> (tasks[id].status = "completed")
          /\ tasks[id].status = "completed" => tasks[id].progress = 100
          /\ (tasks[id].error # None) <=> (tasks[id].status = "failed")
    /\ (resp.op = "get_task_status" /\ resp.code = 200) =>
          ((resp.error # None) <=> (resp.status = "failed"))

C4_Witness ==
    \E a, b \in DOMAIN tasks :
        /\ tasks[a].status = "completed" /\ tasks[a].result_path = Some(output_path(a))
        /\ tasks[b].status = "failed" /\ tasks[b].error = Some("Failed to process image")

\* C5: an accepted submission returns an identifier that no job of the
\* registry had; when the handler returns, the job is registered, its runner
\* has not started, and a status query reports Pending with progress 0; no
\* other job is touched.
C5_SubmitFreshPending ==
    [][\A id \in Ids :
          (resp'.op = "remove_background" /\ resp'.code = 200 /\ resp'.task_id = id) =>
              /\ id \notin DOMAIN tasks
              /\ DOMAIN tasks' = DOMAIN tasks \cup { id }
              /\ pc'[id] = "queued"
              /\ get_task_status_response(id)'.code = 200
              /\ get_task_status_response(id)'.status = "pending"
              /\ get_task_status_response(id)'.progress = 0
              /\ \A other \in DOMAIN tasks : tasks'[other] = tasks[other]]_vars

C5_Witness ==
    /\ resp.op = "remove_background" /\ resp.code = 200
    /\ Cardinality(DOMAIN tasks) >= 2
    /\ tasks[resp.task_id].status = "pending"

\* a submission that created no job and scheduled no work
NothingCreated ==
    /\ resp'.code = 400
    /\ tasks' = tasks /\ pc' = pc /\ work' = work /\ files' = files

\* an upload that reaches no staging step
Upload(filename, size) == [filename |-> filename, size |-> size, fault |-> "none"]

\* C6 as stated: every submission over the maximum size is answered "File
\* too large", every submission with an unsupported extension is answered
\* "Unsupported file format", and neither creates a job or schedules work.
C6_RejectionsAsStated ==
    [][resp'.op = "remove_background" =>
          \A filename \in Filenames, size \in Sizes :
              /\ (size > MAX_FILE_SIZE /\ remove_background(Upload(filename, size))) =>
                    (resp'.detail = "File too large" /\ NothingCreated)
              /\ (Extension[filename] \notin SUPPORTED_FORMATS
                  /\ remove_background(Upload(filename, size))) =>
                    (resp'.detail = "Unsupported file format" /\ NothingCreated)]_vars

\* C6 amended: the extension is checked first.  A submission with an
\* unsupported extension is answered "Unsupported file format" whatever its
\* size; a submission with a supported extension and a payload over the
\* maximum size is answered "File too large"; neither creates a job or
\* schedules work.
C6_Rejections ==
    [][resp'.op = "remove_background" =>
          \A filename \in Filenames, size \in Sizes :
              /\ (size > MAX_FILE_SIZE /\ Extension[filename] \in SUPPORTED_FORMATS
                  /\ remove_background(Upload(filename, size))) =>
                    (resp'.detail = "File too large" /\ NothingCreated)
              /\ (Extension[filename] \notin SUPPORTED_FORMATS
                  /\ remove_background(Upload(filename, size))) =>
                    (resp'.detail = "Unsupported file format" /\ NothingCreated)]_vars

C6_Witness ==
    /\ resp.op = "remove_background" /\ resp.code = 400
    /\ resp.detail = "File too large"

\* the details of the errors raised while decoding, downsampling or staging
StagingErrors == { StageFaultDetail(f) : f \in StageFaults \ { "none" } }

\* C7: a submission answered with a decoding, downsampling or staging error
\* has added no job to the registry.
C7_NoJobOnStagingError ==
    [][(resp'.op = "remove_background" /\ resp'.code = 400
        /\ resp'.detail \in StagingErrors) => DOMAIN tasks' = DOMAIN tasks]_vars

\* the file of a job's result_path is on storage
ResultOnStorage(id) ==
    /\ tasks[id].result_path # None
    /\ tasks[id].result_path[1] \in DOMAIN files

\* C8: a result fetch serves the artifact exactly when the job exists, is
\* Completed and its result file exists; an unknown id is answered 404 "Task
\* not found", a known job that is not Completed 400 "Task not completed"
\* with its state and progress, and a Completed job without its file 404
\* "Result file not found".
C8_ResultFetch ==
    resp.op = "get_result" =>
        LET id == resp.task_id
        IN  IF id \notin DOMAIN tasks
            THEN resp.code = 404 /\ resp.detail = "Task not found" /\ resp.file = None
            ELSE IF tasks[id].status # "completed"
            THEN /\ resp.code = 400 /\ resp.detail = "Task not completed"
                 /\ resp.status = tasks[id].status
                 /\ resp.progress = tasks[id].progress
                 /\ resp.file = None
            ELSE IF ~ ResultOnStorage(id)
            THEN resp.code = 404 /\ resp.detail = "Result file not found" /\ resp.file = None
            ELSE resp.code = 200 /\ resp.file = tasks[id].result_path

C8_Witness ==
    /\ resp.op = "get_result" /\ resp.code = 404
    /\ resp.detail = "Result file not found"
    /\ tasks[resp.task_id].status = "completed"

\* C9 as stated: in every state the result_path of a Completed job names a
\* file on storage, and a served result belongs to a Completed job.
C9_ResultAlwaysOnStorage ==
    /\ \A id \in DOMAIN tasks : tasks[id].status = "completed" => ResultOnStorage(id)
    /\ (resp.op = "get_result" /\ resp.code = 200) =>
          tasks[resp.task_id].status = "completed"

\* C9 amended: a job becomes Completed only after the adapter returned true
\* for it, and its result_path then names the job's output file; the output
\* file is on storage when the adapter returns true and stays there until a
\* retention sweep deletes it; a result is served only for a Completed job
\* whose file is on storage at that moment.
C9_ResultWrittenThenKept ==
    [][/\ (tasks' # tasks \/ work' # work \/ files' # files) =>
             \A id \in Jobs2 :
                 /\ (tasks[id].status # "completed" /\ tasks'[id].status = "completed") =>
                       (work[id] = "true" /\ tasks'[id].result_path = Some(output_path(id)))
                 /\ (work[id] # "true" /\ work'[id] = "true") =>
                       output_path(id) \in DOMAIN files'
                 /\ (output_path(id) \in DOMAIN files /\ output_path(id) \notin DOMAIN files') =>
                       \E max_age_hours \in MaxAges : \E locked \in SUBSET OldFiles(max_age_hours) :
                           clean_temp_files(max_age_hours, locked)
       /\ (resp'.op = "get_result" /\ resp'.code = 200) =>
             /\ resp'.task_id \in DOMAIN tasks
             /\ tasks[resp'.task_id].status = "completed"
             /\ ResultOnStorage(resp'.task_id)]_vars

C9_Witness ==
    /\ resp.op = "get_result" /\ resp.code = 200
    /\ resp.file = Some(output_path(resp.task_id))

\* C10: no fault leaves process_image_async; a runner that has finished has
\* left its job in Completed or Failed, and the runner whose scheduling call
\* raised has left it in Failed with the fault's description as error.
C10_NoFaultEscapes ==
    [][pc' # pc =>
          \A id \in DOMAIN pc' :
              /\ pc'[id] # "raised"
              /\ pc'[id] = "done" => tasks'[id].status \in Terminal
              /\ \A e \in SchedulingFaults :
                    process_image_async_start(id, Some(e)) =>
                        (tasks'[id].status = "failed" /\ tasks'[id].error = Some(e))]_vars

C10_Witness ==
    \E id \in DOMAIN tasks :
        /\ pc[id] = "done" /\ tasks[id].status = "failed"
        /\ tasks[id].error = Some("Executor shutdown has been called")

\* C11: process_image never raises to its caller and returns True exactly
\* when open, remove and save all succeeded.  A failure ends the call at
\* that step with False: when the input cannot be opened the call is over
\* before remove() and writes nothing, when remove() or save fails no output
\* file is written, and a call that has returned does nothing more.
C11_AdapterShortCircuits ==
    [][work' # work =>
          \A id \in DOMAIN work :
              /\ work'[id] # "raised"
              /\ (work[id] = "queued" /\ work'[id] # "queued") =>
                    /\ work'[id] = (IF input_path(id) \in DOMAIN files THEN "opened" ELSE "false")
                    /\ files' = files
              /\ (work[id] # "true" /\ work'[id] = "true") =>
                    /\ work[id] = "opened"
                    /\ output_path(id) \in DOMAIN files' /\ files'[output_path(id)] = now
              /\ (work[id] # "false" /\ work'[id] = "false") => files' = files
              /\ work[id] \in { "true", "false" } => work'[id] = work[id]
              /\ \A removeOk \in BOOLEAN, saveOk \in BOOLEAN :
                    process_image_save(id, removeOk, saveOk) =>
                        (work'[id] = "true" <=> (removeOk /\ saveOk))]_vars

C11_Witness ==
    \E a, b \in DOMAIN work :
        /\ work[a] = "true" /\ output_path(a) \in DOMAIN files
        /\ work[b] = "false" /\ input_path(b) \notin DOMAIN files

\* the workers of the pool the process uses
Workers == IF batch.pc = "off" THEN PoolSize ELSE batch.max_workers

\* C12: in the API server and in a CLI run, the adapter calls executing at
\* one moment are never more than the workers of the pool.  A call offered
\* while every worker is busy stays queued: it is not started, dropped or
\* finished, and it starts only in a step that finds a worker free; whenever
\* a worker is free, a queued call can start.
C12_PoolBounded ==
    /\ [](/\ Cardinality(Running) <= Workers
          /\ \A id \in DOMAIN work :
                (work[id] = "queued" /\ Cardinality(Running) < Workers) =>
                    ENABLED process_image_open(id))
    /\ [][work' # work =>
             \A id \in DOMAIN work :
                 work[id] = "queued" =>
                     /\ work'[id] \in { "queued", "opened", "false" }
                     /\ work'[id] # "queued" => Cardinality(Running) < Workers]_vars

C12_Witness ==
    /\ ~ Serving
    /\ Cardinality(Running) = batch.max_workers
    /\ \E id \in DOMAIN work : work[id] = "queued"

\* the submission that returned id was accepted: its runner was handed to
\* the background tasks
Accepted(id) == id \in DOMAIN pc /\ pc[id] # "none"

\* C13: under the scheduling of Fairness every job whose submission was
\* accepted reaches Completed or Failed, however many jobs wait for the
\* threads of the pool: the runner that waits for its call holds no thread,
\* so the calls of the jobs behind it can run.
C13_AcceptedJobsEnd ==
    \A id \in Ids : Accepted(id) ~> (id \in DOMAIN tasks /\ tasks[id].status \in Terminal)

C13_Witness ==
    /\ Serving
    /\ Cardinality(DOMAIN tasks) > PoolSize
    /\ \A id \in DOMAIN tasks :
          Accepted(id) /\ pc[id] = "done" /\ tasks[id].status = "completed"

\* the items of the batch whose adapter call returned True
Succeeded == { i \in DOMAIN work : work[i] = "true" }

\* the files of the output directory
OutputFiles == { p \in DOMAIN files : p[1] = "output_dir" }

\* the counts of a returned batch: N items of which K failed give N-K and K
BatchCounts ==
    LET N == Len(batch.input_paths)
        K == Cardinality(DOMAIN work \ Succeeded)
    IN  /\ Cardinality(DOMAIN work) = N
        /\ batch.successful = N - K
        /\ batch.failed = K
        /\ batch.successful + batch.failed = N

\* C14: when a batch of N items of which K failed has returned, it has
\* counted N-K successes and K failures, and the output directory holds one
\* output file for each of the N-K successful items and none for a failed
\* item.
C14_BatchCountsAndOutputs ==
    batch.pc = "returned" =>
        /\ BatchCounts
        /\ \A i \in DOMAIN work : (output_path(i) \in DOMAIN files) <=> (i \in Succeeded)
        /\ Cardinality(OutputFiles) = batch.successful

\* the counts alone
CountsWhenReturned == batch.pc = "returned" => BatchCounts

\* C15: in a CLI run every item is submitted, executed and counted once,
\* whatever happens to the others: a call that has returned keeps its
\* outcome, a step of one call changes no other call, a call that has opened
\* its input can still succeed and can still fail, each turn of the result
\* loop counts exactly the next item by its own outcome, and the batch
\* returns only when all N calls have returned and all N are counted.
C15_ItemsIndependent ==
    /\ [](~ Serving =>
             /\ \A i \in DOMAIN work :
                   work[i] = "opened" =>
                       /\ ENABLED process_image_save(i, TRUE, TRUE)
                       /\ ENABLED process_image_save(i, FALSE, TRUE)
             /\ batch.pc = "returned" =>
                   /\ DOMAIN work = DOMAIN batch.input_paths
                   /\ \A i \in DOMAIN work : work[i] \in { "true", "false" }
                   /\ batch.collected = Len(batch.input_paths)
                   /\ batch.successful = Cardinality(Succeeded)
                   /\ batch.failed = Cardinality(DOMAIN work \ Succeeded))
    /\ [][~ Serving =>
             /\ \A i \in DOMAIN work :
                   /\ work[i] \in { "true", "false" } => work'[i] = work[i]
                   /\ work'[i] # work[i] => \A j \in DOMAIN work \ { i } : work'[j] = work[j]
             /\ batch'.collected # batch.collected =>
                   /\ batch'.collected = batch.collected + 1
                   /\ work[batch'.collected] \in { "true", "false" }
                   /\ batch'.successful =
                         batch.successful + (IF work[batch'.collected] = "true" THEN 1 ELSE 0)
                   /\ batch'.failed =
                         batch.failed + (IF work[batch'.collected] = "true" THEN 0 ELSE 1)
                   /\ work' = work]_vars

C15_Witness ==
    /\ batch.pc = "returned"
    /\ batch.max_workers = 2
    /\ Len(batch.input_paths) = 2
    /\ work[1] = "false" /\ work[2] = "true"
    /\ batch.successful = 1 /\ batch.failed = 1

\* the characters s[from..to] spelled as a sequence
Chars(s, from, to) == [k \in 1..(to - from + 1) |-> s[from + k - 1]]

\* C20: the output path of every submitted item lies in the output
\* directory; when the item's extension, read without regard to case, is
\* .jpg or .jpeg, its file name is no_bg_ followed by the input name up to
\* its last dot followed by .png, and otherwise it is no_bg_ followed by the
\* whole input name.
C20_OutputPath ==
    \A i \in DOMAIN batch.futures :
        LET name == batch.input_paths[i]
            out  == output_path(i)[2]
            dot  == rfind_dot(name)
            ext  == lower(Chars(name, dot, Len(name)))
        IN  /\ output_path(i)[1] = "output_dir"
            /\ Chars(out, 1, 6) = <<"n", "o", "_", "b", "g", "_">>
            /\ IF ext = <<".", "j", "p", "g">> \/ ext = <<".", "j", "p", "e", "g">>
               THEN /\ Len(out) = 6 + (dot - 1) + 4
                    /\ Chars(out, 7, 6 + dot - 1) = Chars(name, 1, dot - 1)
                    /\ Chars(out, Len(out) - 3, Len(out)) = <<".", "p", "n", "g">>
               ELSE /\ Len(out) = 6 + Len(name)
                    /\ Chars(out, 7, Len(out)) = name

C20_Witness ==
    /\ batch.pc = "result"
    /\ batch.input_paths = << <<"b", ".", "J", "P", "E", "G">>, <<"e", ".", "w", "e", "b", "p">> >>
    /\ batch.futures = << <<"n", "o", "_", "b", "g", "_", "b", ".", "p", "n", "g">>,
                          <<"n", "o", "_", "b", "g", "_", "e", ".", "w", "e", "b", "p">> >>

\* C19: a status query and a result fetch, whatever they answer, leave the
\* registry, every job, the runners, the pool and the files as they were; a
\* job is added only by a submission, which changes no job that exists; and
\* a step that changes a job is a step of that job's own runner and changes
\* no other job.
C19_OnlyRunnerMutates ==
    [][/\ resp'.op \in { "get_task_status", "get_result" } =>
             (tasks' = tasks /\ pc' = pc /\ work' = work /\ files' = files)
       /\ tasks' # tasks =>
             /\ DOMAIN tasks \subseteq DOMAIN tasks'
             /\ DOMAIN tasks' # DOMAIN tasks =>
                   /\ resp'.op = "remove_background"
                   /\ \A id \in DOMAIN tasks : tasks'[id] = tasks[id]
             /\ \A id \in DOMAIN tasks :
                   tasks'[id] # tasks[id] =>
                       /\ pc[id] \in { "queued", "awaiting" }
                       /\ pc'[id] \in { "awaiting", "done" } /\ pc'[id] # pc[id]
                       /\ \A other \in DOMAIN tasks \ { id } :
                             tasks'[other] = tasks[other] /\ pc'[other] = pc[other]]_vars

C19_Witness ==
    /\ resp.op = "get_result" /\ resp.code = 400
    /\ resp.task_id \in DOMAIN tasks
    /\ tasks[resp.task_id].status = "processing"
    /\ \E other \in DOMAIN tasks : tasks[other].status = "failed" /\ pc[other] = "done"

\* the entries of a call's listing that are regular files older than its
\* max age
OldRegular(call) ==
    { p \in DOMAIN call.listing : p[1] = "file" /\ call.listing[p] < call.cutoff_time }

\* the entries of a call's listing that is_file() accepts and that are
\* older than its max age
Old(call) ==
    { p \in DOMAIN call.listing : is_file(p) /\ call.listing[p] < call.cutoff_time }

\* C16 as stated: a sweep that has ended has deleted exactly the regular
\* files of the directory that were older than the max age, so that every
\* newer file and every other entry is left; on an empty or nonexistent
\* directory that is nothing.
C16_SweepDeletesExactlyOld ==
    \A c \in Calls :
        Ended(sweeps[c]) => sweeps[c].deleted = OldRegular(sweeps[c])

\* C16 amended: a sweep deletes only entries that is_file() accepts (regular
\* files, and symbolic links to regular files) whose time is older than the
\* max age: no newer file and no directory.  When it has ended, every such
\* entry has been deleted except those whose deletion failed and those the
\* sweep, cut short by an error on an entry, had not reached.  A sweep that
\* ran alone and without a failure leaves exactly the entries that were not
\* old files.  A sweep of an empty or nonexistent directory deletes nothing
\* and logs no error.
C16_SweepDeletesOnlyOld ==
    \A c \in Calls :
        LET call == sweeps[c]
        IN  /\ call.deleted \subseteq Old(call)
            /\ Ended(call) =>
                  \A p \in Old(call) :
                      \/ p \in call.deleted \/ p \notin DOMAIN files
                      \/ p \in call.failed
                      \/ call.pc = "logged" /\ p \in call.todo
            /\ ( /\ call.pc = "returned" /\ call.failed = {}
                 /\ \A d \in Calls \ { c } : sweeps[d].pc = "idle" ) =>
                  files = [p \in DOMAIN call.listing \ Old(call) |-> call.listing[p]]
            /\ (Ended(call) /\ call.listing = << >>) =>
                  (call.pc = "returned" /\ call.deleted = {} /\ call.failed = {})

C16_Witness ==
    \E c \in Calls :
        /\ sweeps[c].pc = "returned"
        /\ sweeps[c].deleted = { << "file", 1 >> }
        /\ sweeps[c].failed = {}
        /\ << "file", 2 >> \in DOMAIN files
        /\ \A d \in Calls \ { c } : sweeps[d].pc = "idle"

\* sweep b began when sweep a had ended, with the same max age
InSuccession(a, b) ==
    /\ a \in sweeps[b].after
    /\ sweeps[a].max_age_hours = sweeps[b].max_age_hours

\* C17 as stated: a sweep that follows another with the same max age deletes
\* nothing and, when it has ended, has left the directory as it found it.
C17_SecondSweepDeletesNothing ==
    \A a, b \in Calls :
        InSuccession(a, b) =>
            /\ sweeps[b].deleted = {}
            /\ Ended(sweeps[b]) => files = sweeps[b].listing

\* C17 amended: a sweep that follows another with the same max age deletes
\* only entries the first sweep left although they were old: those whose
\* unlink raised in the first sweep and those the first sweep did not
\* reach.  When the first sweep left none, the second deletes nothing and
\* leaves the directory as it found it.
C17_SecondSweepDeletesLeftovers ==
    \A a, b \in Calls :
        InSuccession(a, b) =>
            LET left == sweeps[a].failed \cup sweeps[a].todo
            IN  /\ sweeps[b].deleted \subseteq left
                /\ (left = {} /\ Ended(sweeps[b])) =>
                      (sweeps[b].deleted = {} /\ files = sweeps[b].listing)

C17_Witness ==
    \E a, b \in Calls :
        /\ InSuccession(a, b)
        /\ sweeps[a].deleted # {} /\ sweeps[a].failed = {}
        /\ sweeps[b].pc = "returned" /\ sweeps[b].deleted = {}
        /\ sweeps[b].listing # << >>

\* C18: a sweep in which stat or unlink raised on some entry has still
\* deleted, when it ends, every other old entry of the directory that was
\* there to delete.
C18_FailureDoesNotAbort ==
    \A c \in Calls :
        Ended(sweeps[c]) =>
            \A p \in Old(sweeps[c]) \ sweeps[c].failed :
                p \in sweeps[c].deleted \/ p \notin DOMAIN files

\* the staged size is the decoded size scaled to the ceiling: the longer
\* side is the ceiling, and the other side is within one of its exact scale
ScaledTo(size, decoded, max_size) ==
    LET longer == Max(decoded[1], decoded[2])
    IN  \A i \in 1..2 :
            IF decoded[i] = longer
            THEN size[i] = max_size
            ELSE /\ size[i] * longer > decoded[i] * max_size - longer
                 /\ size[i] * longer < decoded[i] * max_size + longer

\* C21: an image that the server has staged has its longer side equal to
\* MAX_IMAGE_SIZE and its other side scaled by the same ratio when a side
\* of the decoded image was above MAX_IMAGE_SIZE, and has the decoded size
\* otherwise; the adapter never resizes an image the server staged.
C21_StagedSize ==
    image.entry = "server" =>
        /\ image.pc = "staged" =>
              IF Max(image.decoded[1], image.decoded[2]) > MAX_IMAGE_SIZE
              THEN ScaledTo(image.size, image.decoded, MAX_IMAGE_SIZE)
              ELSE image.size = image.decoded
        /\ ~ image.resized

\* C22: in a CLI run the items, which are distinct input files, have
\* distinct output paths, so that no two calls the executor is running
\* write the same output file.
C22_DistinctOutputPaths ==
    ~ Serving =>
        \A i, j \in DOMAIN batch.futures :
            i # j =>
                /\ batch.input_paths[i] # batch.input_paths[j]
                /\ output_path(i) # output_path(j)

\* C23: no step removes a job from the registry; the identifier a
\* submission returns is that of a registered job; and a status query for a
\* registered job, in whatever state the job and the files are, is answered
\* with the job's fields, never with not-found.
C23_JobsAreKept ==
    [][/\ DOMAIN tasks \subseteq DOMAIN tasks'
       /\ (resp'.op = "remove_background" /\ resp'.code = 200) =>
             resp'.task_id \in DOMAIN tasks'
       /\ \A id \in DOMAIN tasks' : get_task_status_response(id)'.code = 200
       /\ \A id \in DOMAIN tasks :
             (resp'.op = "get_task_status" /\ resp'.task_id = id) =>
                 /\ resp'.code = 200
                 /\ resp'.status = tasks[id].status]_vars

C23_Witness ==
    /\ resp.op = "get_task_status" /\ resp.code = 200
    /\ tasks[resp.task_id].status = "failed"
    /\ Cardinality(DOMAIN tasks) >= 2
    /\ \E id \in DOMAIN tasks : tasks[id].status = "completed" /\ ~ ResultOnStorage(id)

\* the staged input of an accepted job is gone and the adapter has not
\* opened it
InputSwept(id) ==
    /\ Accepted(id)
    /\ work[id] \in { "none", "queued" }
    /\ input_path(id) \notin DOMAIN files

\* the staged input of an accepted job is gone and the adapter has not
\* opened it or has failed
InputLost(id) ==
    /\ Accepted(id)
    /\ work[id] \in { "none", "queued", "false" }
    /\ input_path(id) \notin DOMAIN files

\* C24: a job whose staged input was deleted before the adapter opened it
\* is never Completed from then on and, under the scheduling of Fairness,
\* becomes Failed; a Completed job stays Completed whatever is deleted, and
\* the fetch of a Completed job whose output file is gone is answered 404
\* "Result file not found".
C24_SweepAtAnyPoint ==
    /\ [][\A id \in Ids :
             /\ InputLost(id) => InputLost(id)'
             /\ (id \in DOMAIN tasks /\ tasks[id].status = "completed") =>
                   tasks'[id].status = "completed"]_vars
    /\ [](\A id \in Ids :
             /\ InputLost(id) => tasks[id].status # "completed"
             /\ (id \in DOMAIN tasks /\ tasks[id].status = "completed"
                   /\ ~ ResultOnStorage(id)) =>
                     /\ get_result_response(id).code = 404
                     /\ get_result_response(id).detail = "Result file not found")
    /\ \A id \in Ids :
          InputSwept(id) ~> (id \in DOMAIN tasks /\ tasks[id].status = "failed")

C24_Witness ==
    /\ \E id \in Ids : InputSwept(id) /\ work[id] = "queued"
    /\ \E id \in DOMAIN tasks : tasks[id].status = "completed" /\ ~ ResultOnStorage(id)

=============================================================================
